---- MODULE Spec2Model ----
(***************************************************************************)
(* One curation run of the gene-disease pipeline: the LangGraph workflow   *)
(* (graph/workflow.py), its five stage functions (graph/nodes.py), the     *)
(* orchestrator and the four evidence agents (agents/), and the PubMed     *)
(* client (api/pubmed.py).                                                 *)
(*                                                                         *)
(* Real numbers (scores, confidences) are fixed point: a value x is the    *)
(* integer x * SCALE.  With confidences that are multiples of 0.05 every   *)
(* score of one or two records is exact; divisions round down.             *)
(***************************************************************************)
EXTENDS Integers, Sequences, FiniteSets, TLC

VARIABLES
    world,         \* what PubMed holds and what the LLM answers, fixed for a run
    state,         \* the CurationState held by the graph
    node,          \* the graph node that is scheduled or running
    pc,            \* the position inside the node
    trace,         \* the stage functions entered so far, in order
    merged,        \* the stages whose update has been merged into the state
    i,             \* extract_evidence: the loop variable i
    all_evidence,  \* extract_evidence: the local list all_evidence
    batch,         \* extract_evidence: the local list batch
    task,          \* per pmid and agent: the analyze task
    returned       \* per pmid: whether extract_all_evidence has returned

vars == <<world, state, node, pc, trace, merged, i, all_evidence, batch, task, returned>>

-----------------------------------------------------------------------------
(* Bounds of the model. *)

\* The most identifiers the search returns in a pipeline run.
MaxDocs == 2

\* The identifiers the search returns in the batch scenario (more than one batch).
BatchDocs == 6

\* The most first authors among the documents of the fetch scenario.
MaxSources == 15

\* The most evidence records in the list handed to the score stage alone.
MaxRecords == 2

\* The experiment types of a Functional answer.
MaxTerms == 4

\* The documents with evidence before classify_relationship alone.
MaxGroupDocs == 11

-----------------------------------------------------------------------------
(* Numbers. *)

\* Fixed-point unit: 1.0 is SCALE (8000 = 2^6 * 5^3: halves, hundredths with the
\* 1.2 boost, thousandths and the n = 2 scaling 1.5 / 2 / 2 are whole numbers).
SCALE == 8 * 1000

\* A confidence given in hundredths.
Conf(h) == h * (SCALE \div 100)

Min(a, b) == IF a <= b THEN a ELSE b

RECURSIVE SumSeq(_)
SumSeq(s) == IF s = <<>> THEN 0 ELSE Head(s) + SumSeq(Tail(s))

RECURSIVE SqrtBetween(_, _, _)
\* The largest r in lo..hi with r * r <= x.
SqrtBetween(x, lo, hi) ==
    IF lo >= hi THEN lo
    ELSE LET mid == (lo + hi + 1) \div 2
         IN  IF mid * mid <= x THEN SqrtBetween(x, mid, hi)
                               ELSE SqrtBetween(x, lo, mid - 1)

\* k ** 0.5 in fixed point, for a small whole number k: k * SCALE^2 fits 31 bits.
Sqrt(k) == SqrtBetween(k * SCALE * SCALE, 0, k * SCALE)

RECURSIVE SelectAll(_, _)
\* The elements of a sequence of sequences, flattened in order (list.extend).
SelectAll(lists, acc) ==
    IF lists = <<>> THEN acc ELSE SelectAll(Tail(lists), acc \o Head(lists))

Range(s) == {s[k] : k \in DOMAIN s}

-----------------------------------------------------------------------------
(* models/evidence.py *)

EvidenceType == {"variant", "functional", "cohort", "segregation"}

EvidenceLevel == {"strong", "moderate", "weak"}

\* str.lower() on the level strings an oracle writes.
Lower(s) ==
    CASE s \in {"STRONG", "Strong", "strong"} -> "strong"
      [] s \in {"MODERATE", "Moderate", "moderate"} -> "moderate"
      [] s \in {"WEAK", "Weak", "weak"} -> "weak"
      [] s \in {"NONE", "None", "none"} -> "none"
      [] OTHER -> s

-----------------------------------------------------------------------------
(* The collaborators' content. *)

\* One oracle answer.  ok = FALSE: the call or the parse of the answer fails.
Response(ok, has, level, hundredths, rescue) ==
    [ok |-> ok, has_evidence |-> has, evidence_level |-> level,
     confidence |-> Conf(hundredths), rescue_experiment |-> rescue]

Failure == Response(FALSE, FALSE, "WEAK", 0, FALSE)

\* has_evidence False; the confidence is the one of the answer quoted in agents.py.
NoEvidence == Response(TRUE, FALSE, "WEAK", 200, FALSE)

Asserted ==
    [variant |-> Response(TRUE, TRUE, "WEAK", 50, FALSE),
     functional |-> Response(TRUE, TRUE, "STRONG", 90, TRUE),
     cohort |-> Response(TRUE, TRUE, "MODERATE", 100, FALSE),
     segregation |-> Response(TRUE, TRUE, "Weak", 100, FALSE)]

\* A document whose oracle fails for category x and asserts evidence for the others.
FailsOnly(x) ==
    [abstract |-> TRUE, year |-> 2010, first_author |-> "Lee",
     llm |-> [c \in EvidenceType |-> IF c = x THEN Failure ELSE Asserted[c]]]

\* The same document when the oracle answers for category x and finds no evidence.
AbsentOnly(x) ==
    [abstract |-> TRUE, year |-> 2010, first_author |-> "Lee",
     llm |-> [c \in EvidenceType |-> IF c = x THEN NoEvidence ELSE Asserted[c]]]

\* A document with one Moderate Variant and one Strong Cohort record.
TwoRecords ==
    [abstract |-> TRUE, year |-> 2020, first_author |-> "Smith",
     llm |-> [variant |-> Response(TRUE, TRUE, "MODERATE", 60, FALSE),
              functional |-> NoEvidence,
              cohort |-> Response(TRUE, TRUE, "STRONG", 90, FALSE),
              segregation |-> NoEvidence]]

\* A document whose answers are outside what the schema's descriptions promise:
\* a negative confidence, a level that is no EvidenceLevel, a confidence of 2.0.
\* year 0 stands for None (no <Year> matched).
OffSchema ==
    [abstract |-> TRUE, year |-> 0, first_author |-> "Smith",
     llm |-> [variant |-> Response(TRUE, TRUE, "WEAK", -50, FALSE),
              functional |-> Response(TRUE, TRUE, "NONE", 50, FALSE),
              cohort |-> Response(TRUE, TRUE, "STRONG", 200, FALSE),
              segregation |-> NoEvidence]]

\* An identifier for which efetch holds no <AbstractText>.
NoAbstract ==
    [abstract |-> FALSE, year |-> 1990, first_author |-> "Unknown",
     llm |-> [c \in EvidenceType |-> NoEvidence]]

\* Documents that differ in their first author only, named by that author: retmax
\* lets the search return up to 30 of them.
SourceNames ==
    <<"Ahn", "Bae", "Cho", "Doh", "Eom", "Goh", "Han", "Jin",
      "Kim", "Lim", "Min", "Noh", "Oh", "Park", "Ryu", "Seo">>

\* A document by first_author in which the oracle finds no evidence.
ByAuthor(first_author) ==
    [abstract |-> TRUE, year |-> 2015, first_author |-> first_author,
     llm |-> [c \in EvidenceType |-> NoEvidence]]

\* The kinds of document of the model, by name.
Profiles ==
    {"fails variant", "fails functional", "fails cohort", "fails segregation",
     "two records", "off schema", "no abstract"}

\* The kinds of document in which one answer fails, and their twins in which that
\* answer reports no evidence.
FailingProfiles ==
    {"fails variant", "fails functional", "fails cohort", "fails segregation"}

AbsentProfiles ==
    {"absent variant", "absent functional", "absent cohort", "absent segregation"}

Profile(name) ==
    CASE name = "fails variant" -> FailsOnly("variant")
      [] name = "absent variant" -> AbsentOnly("variant")
      [] name = "absent functional" -> AbsentOnly("functional")
      [] name = "absent cohort" -> AbsentOnly("cohort")
      [] name = "absent segregation" -> AbsentOnly("segregation")
      [] name = "fails functional" -> FailsOnly("functional")
      [] name = "fails cohort" -> FailsOnly("cohort")
      [] name = "fails segregation" -> FailsOnly("segregation")
      [] name = "two records" -> TwoRecords
      [] name = "off schema" -> OffSchema
      [] name = "no abstract" -> NoAbstract
      [] OTHER -> ByAuthor(name)

\* The documents' kinds as a table.
Documents ==
    [name \in Profiles \cup AbsentProfiles \cup Range(SourceNames) |-> Profile(name)]

\* A world is the sequence of the documents' kinds: the search finds the identifiers
\* 1..Len(world), ranked, and Documents[world[p]] is what lies behind identifier p.
Worlds == UNION {[1..n -> Profiles] : n \in 0..MaxDocs}

\* The search finds the first n of the documents of SourceNames, each by another
\* first author.
SourceWorlds == {[k \in 1..n |-> SourceNames[k]] : n \in 0..MaxSources}

\* The worlds of a document with one failing answer, or of its twin, alone and
\* ranked after a document with two records.
DegradeWorlds ==
    {<<name>> : name \in FailingProfiles \cup AbsentProfiles}
        \cup {<<"two records", name>> : name \in FailingProfiles \cup AbsentProfiles}

\* The batch scenario: BatchDocs documents, the last one with a failing Variant call.
BatchWorld ==
    [p \in 1..BatchDocs |->
        IF p = BatchDocs THEN "fails variant"
        ELSE IF p % 2 = 1 THEN "two records" ELSE "fails cohort"]

-----------------------------------------------------------------------------
(* models/state.py, utils/helpers.py *)

AbstractEvidence(pmid, evidence_type, evidence_level, confidence) ==
    [pmid |-> pmid, evidence_type |-> evidence_type,
     evidence_level |-> evidence_level, confidence |-> confidence]

create_initial_state ==
    [gene |-> "BRCA1", disease |-> "breast cancer",
     pmids |-> <<>>, abstracts |-> <<>>, evidence_items |-> <<>>,
     variant_score |-> 0, functional_score |-> 0, segregation_score |-> 0,
     cohort_score |-> 0, total_score |-> 0,
     publication_years |-> <<>>, independent_groups |-> 0, abstracts_analyzed |-> 0,
     classification_suggestion |-> "", confidence_level |-> 0,
     current_stage |-> "start", errors |-> <<>>, processing_time |-> 0,
     messages |-> <<>>]

\* The channels declared Annotated[..., operator.add].
Reduced == {"evidence_items", "messages"}

\* A merge that overwrites every channel of the update.
MergeOverwrite(s, update) ==
    [f \in DOMAIN s |-> IF f \notin DOMAIN update THEN s[f] ELSE update[f]]

\* LangGraph's merge of a stage's partial update: a reduced channel is added to,
\* any other channel is overwritten.
Merge(s, update) ==
    [f \in DOMAIN s |->
        IF f \notin DOMAIN update THEN s[f]
        ELSE IF f \in Reduced THEN s[f] \o update[f]
        ELSE update[f]]

-----------------------------------------------------------------------------
(* graph/workflow.py *)

Stages == <<"search", "fetch", "extract", "score", "classify">>

entry_point == "search"

\* A graph with an edge back from score to extract.
edges_with_retry ==
    [search |-> "fetch", fetch |-> "extract", extract |-> "score",
     score |-> "extract", classify |-> "END"]

edges ==
    [search |-> "fetch", fetch |-> "extract", extract |-> "score",
     score |-> "classify", classify |-> "END"]

-----------------------------------------------------------------------------
(* agents/agents.py: what the try block of each analyze does with an answer. *)

Raised == [kind |-> "raise", value |-> <<>>]
None == [kind |-> "None", value |-> <<>>]
Evidence(rec) == [kind |-> "evidence", value |-> <<rec>>]
BdbQuit == [kind |-> "BdbQuit", value |-> <<>>]

\* EvidenceLevel(s): the enum member of value s, or ValueError.
IsLevel(s) == s \in EvidenceLevel

VariantTry(pmid, r) ==
    IF ~r.ok THEN Raised
    ELSE IF ~r.has_evidence THEN None
    ELSE IF ~IsLevel(Lower(r.evidence_level)) THEN Raised
    ELSE Evidence(AbstractEvidence(pmid, "variant", Lower(r.evidence_level),
                                   r.confidence))

\* The boost without min(1.0, confidence).
FunctionalConfidenceUnclamped(r) ==
    IF r.rescue_experiment THEN (r.confidence * 12) \div 10 ELSE r.confidence

\* min(1.0, confidence) applied to a boosted confidence only.
FunctionalConfidenceBoostOnly(r) ==
    IF r.rescue_experiment THEN Min(SCALE, (r.confidence * 12) \div 10)
    ELSE r.confidence

FunctionalConfidence(r) ==
    LET confidence == IF r.rescue_experiment THEN (r.confidence * 12) \div 10
                      ELSE r.confidence
    IN  Min(SCALE, confidence)

\* The try block without its test of has_evidence.
FunctionalTryKeepsAbsent(pmid, r) ==
    IF ~r.ok THEN Raised
    ELSE IF ~IsLevel(Lower(r.evidence_level)) THEN Raised
    ELSE Evidence(AbstractEvidence(pmid, "functional", Lower(r.evidence_level),
                                   FunctionalConfidence(r)))

FunctionalTry(pmid, r) ==
    IF ~r.ok THEN Raised
    ELSE IF ~r.has_evidence THEN None
    ELSE IF ~IsLevel(Lower(r.evidence_level)) THEN Raised
    ELSE Evidence(AbstractEvidence(pmid, "functional", Lower(r.evidence_level),
                                   FunctionalConfidence(r)))

CohortTry(pmid, r) ==
    IF ~r.ok THEN Raised
    ELSE IF ~r.has_evidence THEN None
    ELSE IF ~IsLevel(Lower(r.evidence_level)) THEN Raised
    ELSE Evidence(AbstractEvidence(pmid, "cohort", Lower(r.evidence_level),
                                   r.confidence))

\* The try block without its test of has_evidence.
SegregationTryKeepsAbsent(pmid, r) ==
    IF ~r.ok THEN Raised
    ELSE IF ~IsLevel(Lower(r.evidence_level)) THEN Raised
    ELSE Evidence(AbstractEvidence(pmid, "segregation", Lower(r.evidence_level),
                                   r.confidence))

SegregationTry(pmid, r) ==
    IF ~r.ok THEN Raised
    ELSE IF ~r.has_evidence THEN None
    ELSE IF ~IsLevel(Lower(r.evidence_level)) THEN Raised
    ELSE Evidence(AbstractEvidence(pmid, "segregation", Lower(r.evidence_level),
                                   r.confidence))

TryBody(c, pmid, r) ==
    CASE c = "variant" -> VariantTry(pmid, r)
      [] c = "functional" -> FunctionalTry(pmid, r)
      [] c = "cohort" -> CohortTry(pmid, r)
      [] c = "segregation" -> SegregationTry(pmid, r)

\* key_terms=result.experiment_types[:3]
functional_key_terms(r) ==
    SubSeq(r.experiment_types, 1, Min(3, Len(r.experiment_types)))

\* The try block of agent c on an answer that lists its experiment types: the record
\* of the Functional agent with its key_terms.  (The stages read pmid, evidence_type,
\* evidence_level and confidence only, and the records of a run carry these.)
TryBodyWithTerms(c, pmid, r) ==
    LET t == TryBody(c, pmid, r)
    IN  IF c = "functional" /\ t.kind = "evidence"
        THEN Evidence([f \in DOMAIN t.value[1] \cup {"key_terms"} |->
                          IF f = "key_terms" THEN functional_key_terms(r)
                          ELSE t.value[1][f]])
        ELSE t

\* The agents whose except handler stops in the debugger before it returns None
\* (agents.py line 63); the other handlers are a bare `except: return None`.
StopsInDebugger(c) == c = "variant"

-----------------------------------------------------------------------------
(* agents/orchestrator.py *)

\* The tasks in the order of the agents' names.
AgentOrderByName == <<"cohort", "functional", "segregation", "variant">>

\* The order of the tasks list, which is the order of gather's results.

AgentOrder == <<"variant", "functional", "cohort", "segregation">>

return_exceptions == TRUE

\* `if result and not isinstance(result, Exception)`
Kept(result) == result.kind = "evidence"

RECURSIVE Collect(_)
Collect(results) ==
    IF results = <<>> THEN <<>>
    ELSE (IF Kept(Head(results)) THEN Head(results).value ELSE <<>>)
         \o Collect(Tail(results))

\* The list extract_all_evidence builds from gather's four results.
EvidenceItemsOf(results) == Collect([k \in 1..Len(AgentOrder) |-> results[AgentOrder[k]]])

-----------------------------------------------------------------------------
(* api/pubmed.py *)

\* PubMedManager.search_papers: the idlist, or [] when the request or its parse fails.
search_papers(outcome) ==
    IF outcome = "ok" THEN [k \in 1..Len(world) |-> k] ELSE <<>>

\* PubMedManager.fetch_abstracts: an entry for each pmid with an <AbstractText>, in
\* the order of pmids; {} for no pmids and when the request fails.
pubmed_fetch_abstracts(pmids, outcome) ==
    IF pmids = <<>> \/ outcome # "ok" THEN <<>>
    ELSE LET found == SelectSeq(pmids, LAMBDA p : Documents[world[p]].abstract)
         IN  [k \in 1..Len(found) |->
                 [pmid |-> found[k], year |-> Documents[world[found[k]]].year,
                  first_author |-> Documents[world[found[k]]].first_author]]

-----------------------------------------------------------------------------
(* graph/nodes.py: the stage functions, each as the partial update it returns. *)

batch_size == 5

search_literature(s, pmids) ==
    IF pmids = <<>>
    THEN [pmids |-> <<>>, errors |-> << <<"No papers found for", s.gene, s.disease>> >>,
          current_stage |-> "complete", messages |-> << <<"No literature found">> >>]
    ELSE [pmids |-> pmids, current_stage |-> "fetch_abstracts",
          messages |-> << <<"Found papers", Len(pmids)>> >>]

fetch_abstracts(s, abstracts) ==
    LET with_year == SelectSeq(abstracts, LAMBDA a : a.year # 0)
        years == [k \in 1..Len(with_year) |-> with_year[k].year]
        authors == {abstracts[k].first_author :
                       k \in {j \in DOMAIN abstracts : abstracts[j].first_author # ""}}
    IN  [abstracts |-> abstracts,
         abstracts_analyzed |-> Len(abstracts),
         publication_years |-> SortSeq(years, LAMBDA a, b : a < b),
         independent_groups |-> Cardinality(authors),
         current_stage |-> "extract_evidence",
         messages |-> << <<"Fetched abstracts", Len(abstracts)>> >>]

\* list(state["abstracts"].keys())
AbstractKeys(s) == [k \in 1..Len(s.abstracts) |-> s.abstracts[k].pmid]

\* pmids[i:], a slice without its upper end.
BatchToEnd(pmids, j) == SubSeq(pmids, j + 1, Len(pmids))

\* pmids[i:i+batch_size]
Batch(pmids, j) == SubSeq(pmids, j + 1, Min(j + batch_size, Len(pmids)))

extract_evidence(evidence) ==
    [evidence_items |-> evidence,
     current_stage |-> "calculate_scores",
     messages |-> << <<"Extracted evidence items", Len(evidence)>> >>]

\* The table with 2.0 for Moderate.
level_scores_moderate_two == [strong |-> 3 * SCALE, moderate |-> 2 * SCALE, weak |-> SCALE \div 2]

level_scores == [strong |-> 3 * SCALE, moderate |-> (3 * SCALE) \div 2, weak |-> SCALE \div 2]

\* 1.0 + 0.5 * (len(evidence_list) - 1) ** 0.5
scaling_factor(n) == SCALE + Sqrt(n - 1) \div 2

\* The score with 1 - confidence_adjustment as the adjustment.
calculate_type_score_doubt(evidence_list) ==
    IF evidence_list = <<>> THEN 0
    ELSE
      LET n == Len(evidence_list)
          base_score == SumSeq([k \in 1..n |-> level_scores[evidence_list[k].evidence_level]])
          scaled == IF n > 1
                    THEN ((base_score \div (SCALE \div 2)) * scaling_factor(n)) \div (2 * n)
                    ELSE base_score
          confidence_sum == SumSeq([k \in 1..n |-> evidence_list[k].confidence])
          confidence_adjustment == confidence_sum \div n
      IN  (scaled * (SCALE - confidence_adjustment)) \div SCALE

\* The score with the confidence of the first record as the adjustment.
calculate_type_score_first(evidence_list) ==
    IF evidence_list = <<>> THEN 0
    ELSE
      LET n == Len(evidence_list)
          base_score == SumSeq([k \in 1..n |-> level_scores[evidence_list[k].evidence_level]])
          scaled == IF n > 1
                    THEN ((base_score \div (SCALE \div 2)) * scaling_factor(n)) \div (2 * n)
                    ELSE base_score
      IN  (scaled * evidence_list[1].confidence) \div SCALE

calculate_type_score(evidence_list) ==
    IF evidence_list = <<>> THEN 0
    ELSE
      LET n == Len(evidence_list)
          base_score == SumSeq([k \in 1..n |-> level_scores[evidence_list[k].evidence_level]])
          \* base_score * scaling_factor / n; base_score is a whole number of halves,
          \* which keeps the product within 31 bits
          scaled == IF n > 1
                    THEN ((base_score \div (SCALE \div 2)) * scaling_factor(n)) \div (2 * n)
                    ELSE base_score
          confidence_sum == SumSeq([k \in 1..n |-> evidence_list[k].confidence])
          confidence_adjustment == confidence_sum \div n
      IN  (scaled * confidence_adjustment) \div SCALE

\* Weights that are all 1.0.
weights_all_one == [variant |-> 10, functional |-> 10, segregation |-> 10, cohort |-> 10]

\* The weights, in tenths.
weights == [variant |-> 10, functional |-> 8, segregation |-> 12, cohort |-> 15]

OfType(evidence_items, t) == SelectSeq(evidence_items, LAMBDA e : e.evidence_type = t)

\* The plain sum of the four scores.
total_score_unweighted(variant, functional, segregation, cohort) ==
    variant + functional + segregation + cohort

total_score_of(variant, functional, segregation, cohort) ==
    (variant * weights["variant"] + functional * weights["functional"]
     + segregation * weights["segregation"] + cohort * weights["cohort"]) \div 10

\* min(len(pmids), 10) of the pmids that occur in the evidence
independent_groups_of(evidence_items) ==
    Min(Cardinality({evidence_items[k].pmid : k \in DOMAIN evidence_items}), 10)

calculate_scores(s) ==
    LET variant_score == calculate_type_score(OfType(s.evidence_items, "variant"))
        functional_score == calculate_type_score(OfType(s.evidence_items, "functional"))
        segregation_score == calculate_type_score(OfType(s.evidence_items, "segregation"))
        cohort_score == calculate_type_score(OfType(s.evidence_items, "cohort"))
        total_score == total_score_of(variant_score, functional_score,
                                      segregation_score, cohort_score)
    IN  [variant_score |-> variant_score,
         functional_score |-> functional_score,
         segregation_score |-> segregation_score,
         cohort_score |-> cohort_score,
         total_score |-> total_score,
         independent_groups |-> independent_groups_of(s.evidence_items),
         current_stage |-> "classify_relationship",
         messages |-> s.messages \o << <<"Total evidence score", total_score>> >>]

\* The thresholds dict, in its insertion order.
thresholds ==
    << <<"definitive", 30 * SCALE>>, <<"strong", 15 * SCALE>>, <<"moderate", 5 * SCALE>>,
       <<"limited", 2 * SCALE>>, <<"disputed", 0>> >>

RECURSIVE FirstMatchAbove(_, _)
\* The loop with > in the place of >=.
FirstMatchAbove(total_score, rest) ==
    IF rest = <<>> THEN "no evidence"
    ELSE IF total_score > Head(rest)[2] THEN Head(rest)[1]
    ELSE FirstMatchAbove(total_score, Tail(rest))

RECURSIVE FirstMatch(_, _)
\* The for loop over thresholds.items() with its break.
FirstMatch(total_score, rest) ==
    IF rest = <<>> THEN "no evidence"
    ELSE IF total_score >= Head(rest)[2] THEN Head(rest)[1]
    ELSE FirstMatch(total_score, Tail(rest))

classification_of(total_score) == FirstMatch(total_score, thresholds)

SeqMax(s) == CHOOSE x \in Range(s) : \A y \in Range(s) : y <= x
SeqMin(s) == CHOOSE x \in Range(s) : \A y \in Range(s) : x <= y

\* The confidence without min(1.0, ...) on the two diversities.
confidence_level_of_uncapped(s) ==
    LET evidence_types == {s.evidence_items[k].evidence_type : k \in DOMAIN s.evidence_items}
        evidence_diversity == (Cardinality(evidence_types) * SCALE) \div 4
        source_diversity == (s.independent_groups * SCALE) \div 5
        confidence_level == SCALE \div 2 + evidence_diversity \div 4 + source_diversity \div 4
    IN  IF s.publication_years # <<>>
        THEN LET year_span == SeqMax(s.publication_years) - SeqMin(s.publication_years)
             IN  (confidence_level * (100 - year_span)) \div 100
        ELSE confidence_level

\* The confidence with the year factor 1 + year_span / 100.
confidence_level_of_span_added(s) ==
    LET evidence_types == {s.evidence_items[k].evidence_type : k \in DOMAIN s.evidence_items}
        evidence_diversity == Min(SCALE, (Cardinality(evidence_types) * SCALE) \div 4)
        source_diversity == Min(SCALE, (s.independent_groups * SCALE) \div 5)
        confidence_level == SCALE \div 2 + evidence_diversity \div 4 + source_diversity \div 4
    IN  IF s.publication_years # <<>>
        THEN LET year_span == SeqMax(s.publication_years) - SeqMin(s.publication_years)
             IN  (confidence_level * (100 + year_span)) \div 100
        ELSE confidence_level

confidence_level_of(s) ==
    LET evidence_types == {s.evidence_items[k].evidence_type : k \in DOMAIN s.evidence_items}
        evidence_diversity == Min(SCALE, (Cardinality(evidence_types) * SCALE) \div 4)
        source_diversity == Min(SCALE, (s.independent_groups * SCALE) \div 5)
        confidence_level == SCALE \div 2 + evidence_diversity \div 4 + source_diversity \div 4
    IN  IF s.publication_years # <<>>
        THEN LET year_span == SeqMax(s.publication_years) - SeqMin(s.publication_years)
             IN  (confidence_level * (100 - year_span)) \div 100
        ELSE confidence_level

classify_relationship(s) ==
    LET classification == classification_of(s.total_score)
        confidence_level == confidence_level_of(s)
    IN  [classification_suggestion |-> classification,
         confidence_level |-> confidence_level,
         current_stage |-> "complete",
         messages |-> s.messages \o << <<"Classification", classification, confidence_level>> >>]

-----------------------------------------------------------------------------
(* The run: run_curation.py drives the compiled graph. *)

\* A task of analyze is "idle" (not created), "inflight" (awaiting the oracle), "pdb"
\* (stopped in the debugger), or done: "returned" (the try block returned), "handled"
\* (the except handler returned None) or "BdbQuit" (the debugger raised out of it).
TaskDone == {"returned", "handled", "BdbQuit"}

\* Whether the try block of agent c raises on the answers of a kind of document.
Raises == [name \in Profiles \cup AbsentProfiles |->
              [c \in EvidenceType |-> TryBody(c, 0, Documents[name].llm[c]) = Raised]]

\* A handler that returns a weak record of confidence 0 in place of None.
TaskResultPlaceholder(p, c) ==
    CASE task[p][c] = "returned" -> TryBody(c, p, Documents[world[p]].llm[c])
      [] task[p][c] = "handled" -> Evidence(AbstractEvidence(p, c, "weak", 0))
      [] task[p][c] = "BdbQuit" -> BdbQuit
      [] OTHER -> None

\* What the analyze task of pmid p and agent c ended with.
TaskResult(p, c) ==
    CASE task[p][c] = "returned" -> TryBody(c, p, Documents[world[p]].llm[c])
      [] task[p][c] = "handled" -> None
      [] task[p][c] = "BdbQuit" -> BdbQuit
      [] OTHER -> None

\* What datetime.now() - start_time can be, in whole seconds.
Durations == {1, 2}

InitWith(w) ==
    /\ world = w
    /\ state = create_initial_state
    /\ node = entry_point
    /\ pc = "ready"
    /\ trace = <<>>
    /\ merged = <<>>
    /\ i = 0
    /\ all_evidence = <<>>
    /\ batch = <<>>
    /\ task = [p \in DOMAIN w |-> [c \in EvidenceType |-> "idle"]]
    /\ returned = [p \in DOMAIN w |-> "pending"]

Init == \E w \in Worlds : InitWith(w)

\* A stage function returns `update`: the graph merges it and follows the edge.
Finish(stage, update) ==
    /\ state' = Merge(state, update)
    /\ merged' = Append(merged, stage)
    /\ node' = edges[stage]
    /\ pc' = "ready"

SearchCall ==
    /\ node = "search" /\ pc = "ready"
    /\ pc' = "await"
    /\ trace' = Append(trace, "search")
    /\ UNCHANGED <<world, state, node, merged, i, all_evidence, batch, task, returned>>

SearchReturn ==
    /\ node = "search" /\ pc = "await"
    /\ \E outcome \in {"ok", "error"} :
          Finish("search", search_literature(state, search_papers(outcome)))
    /\ UNCHANGED <<world, trace, i, all_evidence, batch, task, returned>>

FetchCall ==
    /\ node = "fetch" /\ pc = "ready"
    /\ pc' = "await"
    /\ trace' = Append(trace, "fetch")
    /\ UNCHANGED <<world, state, node, merged, i, all_evidence, batch, task, returned>>

FetchReturn ==
    /\ node = "fetch" /\ pc = "await"
    /\ \E outcome \in {"ok", "error"} :
          Finish("fetch", fetch_abstracts(state, pubmed_fetch_abstracts(state.pmids, outcome)))
    /\ UNCHANGED <<world, trace, i, all_evidence, batch, task, returned>>

\* The head of the for loop of extract_evidence at offset j with the evidence so far:
\* the tasks of the next batch are created and gathered (asyncio starts each of them,
\* and each starts its four analyze calls, before any answer is handled), or the loop
\* is over and the stage returns.
LoopFrom(j, evidence) ==
    LET pmids == AbstractKeys(state)
    IN  /\ i' = j
        /\ all_evidence' = evidence
        /\ IF j < Len(pmids)
           THEN /\ batch' = Batch(pmids, j)
                /\ task' = [p \in DOMAIN task |->
                              IF p \in Range(Batch(pmids, j))
                              THEN [c \in EvidenceType |-> "inflight"]
                              ELSE task[p]]
                /\ pc' = "gather"
                /\ UNCHANGED <<state, merged, node>>
           ELSE /\ Finish("extract", extract_evidence(evidence))
                /\ UNCHANGED <<batch, task>>

ExtractStart ==
    /\ node = "extract" /\ pc = "ready"
    /\ trace' = Append(trace, "extract")
    /\ LoopFrom(0, <<>>)
    /\ UNCHANGED <<world, returned>>

\* The oracle's answer to one analyze call arrives: the try block runs on it.  A
\* handler that stops in the debugger stops the event loop, which is one thread:
\* until the debugger is left (pc = "pdb") no other task is resumed.
AnalyzeResponse(p, c) ==
    /\ node = "extract" /\ pc = "gather"
    /\ task[p][c] = "inflight"
    /\ LET raises == Raises[world[p]][c]
       IN  /\ task' = [task EXCEPT ![p][c] =
                          IF ~raises THEN "returned"
                          ELSE IF StopsInDebugger(c) THEN "pdb" ELSE "handled"]
           /\ pc' = IF raises /\ StopsInDebugger(c) THEN "pdb" ELSE pc
    /\ UNCHANGED <<world, state, node, trace, merged, i, all_evidence, batch, returned>>

\* The debugger is given `continue`: the handler goes on to `return None`.
PdbContinue(p, c) ==
    /\ pc = "pdb" /\ task[p][c] = "pdb"
    /\ task' = [task EXCEPT ![p][c] = "handled"]
    /\ pc' = "gather"
    /\ UNCHANGED <<world, state, node, trace, merged, i, all_evidence, batch, returned>>

\* The debugger is given `quit`, or its input is at end of file: bdb raises BdbQuit
\* out of analyze, and the task ends with that exception.
PdbQuit(p, c) ==
    /\ pc = "pdb" /\ task[p][c] = "pdb"
    /\ task' = [task EXCEPT ![p][c] = "BdbQuit"]
    /\ pc' = "gather"
    /\ UNCHANGED <<world, state, node, trace, merged, i, all_evidence, batch, returned>>

Settled(p) == \A c \in EvidenceType : task[p][c] \in TaskDone

\* What extract_all_evidence of pmid p returned.
ReturnedItems(p) == EvidenceItemsOf([c \in EvidenceType |-> TaskResult(p, c)])

\* gather(*tasks, return_exceptions=True) of one pmid is done: extract_all_evidence
\* builds its list and returns.
ExtractAllEvidenceReturn(p) ==
    /\ node = "extract" /\ pc = "gather"
    /\ returned[p] = "pending"
    /\ Settled(p)
    /\ returned' = [returned EXCEPT ![p] =
          IF ~return_exceptions /\ \E c \in EvidenceType : task[p][c] = "BdbQuit"
          THEN "raised"
          ELSE "returned"]
    /\ UNCHANGED <<world, state, node, pc, trace, merged, i, all_evidence, batch, task>>

\* The batch's gather is done when every extract_all_evidence of the batch is.
\* A join that waits for the first list of the batch only.
BatchSettledFirst(pmids) == \E p \in Range(pmids) : returned[p] # "pending"

BatchSettled(pmids) == \A p \in Range(pmids) : returned[p] # "pending"

\* asyncio.gather(*tasks) of the batch is done: the lists are appended in the order of
\* the batch and the loop goes on; an exception of a task is raised to the caller.
BatchGatherReturn ==
    /\ node = "extract" /\ pc = "gather"
    /\ BatchSettled(batch)
    /\ IF \E p \in Range(batch) : returned[p] = "raised"
       THEN /\ node' = "raised"
            /\ pc' = "ready"
            /\ UNCHANGED <<state, merged, i, all_evidence, batch, task>>
       ELSE LoopFrom(i + batch_size,
                     SelectAll([k \in 1..Len(batch) |-> ReturnedItems(batch[k])],
                               all_evidence))
    /\ UNCHANGED <<world, trace, returned>>

CalculateScores ==
    /\ node = "score" /\ pc = "ready"
    /\ trace' = Append(trace, "score")
    /\ Finish("score", calculate_scores(state))
    /\ UNCHANGED <<world, i, all_evidence, batch, task, returned>>

ClassifyRelationship ==
    /\ node = "classify" /\ pc = "ready"
    /\ trace' = Append(trace, "classify")
    /\ Finish("classify", classify_relationship(state))
    /\ UNCHANGED <<world, i, all_evidence, batch, task, returned>>

\* ainvoke has returned the final state: run_curation stamps the duration on it.
Return ==
    /\ node = "END" /\ pc = "ready"
    /\ \E t \in Durations : state' = [state EXCEPT !.processing_time = t]
    /\ pc' = "returned"
    /\ UNCHANGED <<world, node, trace, merged, i, all_evidence, batch, task, returned>>

Next ==
    \/ SearchCall
    \/ SearchReturn
    \/ FetchCall
    \/ FetchReturn
    \/ ExtractStart
    \/ \E p \in DOMAIN task : \E c \in EvidenceType : AnalyzeResponse(p, c)
    \/ \E p \in DOMAIN task : \E c \in EvidenceType : PdbContinue(p, c)
    \/ \E p \in DOMAIN task : \E c \in EvidenceType : PdbQuit(p, c)
    \/ \E p \in DOMAIN task : ExtractAllEvidenceReturn(p)
    \/ BatchGatherReturn
    \/ CalculateScores
    \/ ClassifyRelationship
    \/ Return

Spec == Init /\ [][Next]_vars

\* The batch scenario: the same run over BatchWorld.
InitBatch == InitWith(BatchWorld)

SpecBatch == InitBatch /\ [][Next]_vars

\* The runs over a document with one failing answer and over its twin.
InitDegrade == \E w \in DegradeWorlds : InitWith(w)

SpecDegrade == InitDegrade /\ [][Next]_vars

\* One analyze call on its own, for any agent and any answer: the oracle's answers
\* are unvalidated, so any flag, any string and any number can arrive, with up to
\* MaxTerms experiment types.
ExperimentNames ==
    <<"knockout", "rescue", "patch clamp", "reporter assay", "mouse model", "minigene">>

Answers ==
    {[ok |-> ok, has_evidence |-> has, evidence_level |-> level,
      confidence |-> Conf(hundredths), rescue_experiment |-> rescue,
      experiment_types |-> SubSeq(ExperimentNames, 1, n)] :
        ok \in BOOLEAN, has \in BOOLEAN, level \in {"STRONG", "Moderate", "weak", "NONE"},
        hundredths \in {-50, 0, 50, 80, 90, 100, 200}, rescue \in BOOLEAN,
        n \in 0..MaxTerms}

\* world[1] is the answer; the call of agent c for pmid 1 is in flight.
InitAgent ==
    /\ \E r \in Answers : world = <<r>>
    /\ \E c \in EvidenceType :
          task = <<[x \in EvidenceType |-> IF x = c THEN "inflight" ELSE "idle"]>>
    /\ LET s0 == create_initial_state
           s1 == Merge(s0, search_literature(s0, <<1>>))
       IN  state = Merge(s1, fetch_abstracts(s1,
                       <<[pmid |-> 1, year |-> 2010, first_author |-> "Lee"]>>))
    /\ node = "extract"
    /\ pc = "gather"
    /\ trace = SubSeq(Stages, 1, 3)
    /\ merged = SubSeq(Stages, 1, 2)
    /\ i = 0
    /\ all_evidence = <<>>
    /\ batch = <<1>>
    /\ returned = <<"pending">>

\* The answer arrives and the try block runs on it; all_evidence takes what the call
\* returns, as the list of one record or of none.
AnswerArrives(c) ==
    /\ node = "extract" /\ pc = "gather"
    /\ task[1][c] = "inflight"
    /\ LET t == TryBodyWithTerms(c, 1, world[1])
       IN  /\ task' = [task EXCEPT ![1][c] =
                          IF t # Raised THEN "returned"
                          ELSE IF StopsInDebugger(c) THEN "pdb" ELSE "handled"]
           /\ pc' = IF t = Raised /\ StopsInDebugger(c) THEN "pdb" ELSE pc
           /\ all_evidence' = t.value
    /\ UNCHANGED <<world, state, node, trace, merged, i, batch, returned>>

NextAgent ==
    \/ \E c \in EvidenceType : AnswerArrives(c)
    \/ \E c \in EvidenceType : PdbContinue(1, c)
    \/ \E c \in EvidenceType : PdbQuit(1, c)

SpecAgent == InitAgent /\ [][NextAgent]_vars

\* The search and fetch stages of a run over literature by up to MaxSources authors.
InitFetch == \E w \in SourceWorlds : InitWith(w)

NextFetch == SearchCall \/ SearchReturn \/ FetchCall \/ FetchReturn

SpecFetch == InitFetch /\ [][NextFetch]_vars

\* The score and classify stages alone, on evidence lists of up to MaxRecords records
\* from two fetched documents: each record of one of the documents and of one
\* category, with any level and with a confidence of -0.5, 0.6 or 1.0, listed in the
\* order of the documents and of the agents as extract_evidence lists them.
Confidences == {Conf(-50), Conf(60), Conf(100)}

ScoreAbstracts ==
    << [pmid |-> 1, year |-> 2010, first_author |-> "Lee"],
       [pmid |-> 2, year |-> 2020, first_author |-> "Smith"] >>

RecordChoices ==
    {AbstractEvidence(a.pmid, t, l, c) :
        a \in Range(ScoreAbstracts), t \in EvidenceType, l \in EvidenceLevel, c \in Confidences}

AgentIndex(t) == CHOOSE k \in DOMAIN AgentOrder : AgentOrder[k] = t

InListOrder(e1, e2) ==
    \/ e1.pmid < e2.pmid
    \/ e1.pmid = e2.pmid /\ AgentIndex(e1.evidence_type) < AgentIndex(e2.evidence_type)

EvidenceLists ==
    UNION {{items \in [1..n -> RecordChoices] :
               \A k \in 1..(n - 1) : InListOrder(items[k], items[k + 1])} :
           n \in 0..MaxRecords}

\* The state that the search, fetch and extract stages leave for the evidence items.
StateBeforeScore(items) ==
    LET s0 == create_initial_state
        s1 == Merge(s0, search_literature(s0, AbstractKeys([abstracts |-> ScoreAbstracts])))
        s2 == Merge(s1, fetch_abstracts(s1, ScoreAbstracts))
    IN  Merge(s2, extract_evidence(items))

InitScore ==
    /\ world = <<>>
    /\ \E items \in EvidenceLists :
          /\ state = StateBeforeScore(items)
          /\ all_evidence = items
    /\ node = "score"
    /\ pc = "ready"
    /\ trace = SubSeq(Stages, 1, 3)
    /\ merged = SubSeq(Stages, 1, 3)
    /\ i = 0
    /\ batch = <<>>
    /\ task = <<>>
    /\ returned = <<>>

NextScore == CalculateScores \/ ClassifyRelationship \/ Return

SpecScore == InitScore /\ [][NextScore]_vars

\* classify_relationship alone, on the states the score stage can leave and on totals
\* around every threshold: whole and half points from -2.0 to 32.0, and each threshold
\* plus and minus 0.001 and one unit of the fixed point.
TotalScores ==
    {(k * SCALE) \div 2 : k \in -4..64}
        \cup {thresholds[k][2] + d : k \in DOMAIN thresholds,
                                     d \in {-(SCALE \div 1000), -1, 1, SCALE \div 1000}}

InitClassify ==
    /\ world = <<>>
    /\ \E t \in TotalScores :
          state = [create_initial_state EXCEPT !.total_score = t,
                                               !.current_stage = "classify"]
    /\ node = "classify"
    /\ pc = "ready"
    /\ trace = SubSeq(Stages, 1, 4)
    /\ merged = SubSeq(Stages, 1, 4)
    /\ i = 0
    /\ all_evidence = <<>>
    /\ batch = <<>>
    /\ task = <<>>
    /\ returned = <<>>

NextClassify == ClassifyRelationship \/ Return

SpecClassify == InitClassify /\ [][NextClassify]_vars

\* classify_relationship alone, on the states the first four stages leave for g
\* fetched documents, of which the first has records of the first k categories and
\* each other one a Variant record (k = 0: no evidence at all), and whose years are
\* unknown (spread = -1), or 2020 with the first document `spread` years older.
YearSpreads == {-1, 0, 10, 100, 120}

ConfidenceAbstracts(g, spread) ==
    [p \in 1..g |->
        [pmid |-> p,
         year |-> IF spread = -1 THEN 0 ELSE IF p = 1 THEN 2020 - spread ELSE 2020,
         first_author |-> "Lee"]]

ConfidenceItems(g, k) ==
    IF k = 0 THEN <<>>
    ELSE [n \in 1..(k + g - 1) |->
             IF n <= k THEN AbstractEvidence(1, AgentOrder[n], "weak", Conf(100))
             ELSE AbstractEvidence(n - k + 1, "variant", "weak", Conf(100))]

StateBeforeClassify(g, k, spread) ==
    LET s0 == create_initial_state
        s1 == Merge(s0, search_literature(s0, [p \in 1..g |-> p]))
        s2 == Merge(s1, fetch_abstracts(s1, ConfidenceAbstracts(g, spread)))
        s3 == Merge(s2, extract_evidence(ConfidenceItems(g, k)))
    IN  Merge(s3, calculate_scores(s3))

InitConfidence ==
    /\ world = <<>>
    /\ \E g \in 0..MaxGroupDocs : \E k \in 0..Len(AgentOrder) : \E spread \in YearSpreads :
          /\ g = 0 => k = 0
          /\ state = StateBeforeClassify(g, k, spread)
          /\ all_evidence = ConfidenceItems(g, k)
    /\ node = "classify"
    /\ pc = "ready"
    /\ trace = SubSeq(Stages, 1, 4)
    /\ merged = SubSeq(Stages, 1, 4)
    /\ i = 0
    /\ batch = <<>>
    /\ task = <<>>
    /\ returned = <<>>

SpecConfidence == InitConfidence /\ [][NextClassify]_vars

\* The steps that the event loop and the collaborators take by themselves; leaving
\* the debugger takes a person, or an input stream, that answers it.
NextScheduled ==
    \/ SearchCall
    \/ SearchReturn
    \/ FetchCall
    \/ FetchReturn
    \/ ExtractStart
    \/ \E p \in DOMAIN task : \E c \in EvidenceType : AnalyzeResponse(p, c)
    \/ \E p \in DOMAIN task : ExtractAllEvidenceReturn(p)
    \/ BatchGatherReturn
    \/ CalculateScores
    \/ ClassifyRelationship
    \/ Return

-----------------------------------------------------------------------------
(* The claims. *)

IsPrefix(s, t) == Len(s) <= Len(t) /\ s = SubSeq(t, 1, Len(s))

\* C1: the stage functions run in the order search, fetch, extract, score, classify
\* and then the run completes: the stages entered so far are always a prefix of that
\* order (so none runs twice and none is re-entered), a stage is entered only when
\* the update of every earlier stage has been merged, and the graph ends only after
\* all five have run and merged.
C1_StrictLinearOrder ==
    /\ IsPrefix(trace, Stages)
    /\ IsPrefix(merged, trace)
    /\ Len(trace) <= Len(merged) + 1
    /\ node = "END" => merged = Stages
    /\ node \in Range(Stages) \cup {"END"}

C1_Witness == node = "END" /\ trace = Stages /\ merged = Stages

SearchFoundNothing == Len(merged) >= 1 /\ state.pmids = <<>>

\* C2: when the search returns no identifier, fetch, extract, score and classify are
\* never run, the scores stay 0.0, the label stays unset, and exactly one message and
\* one error entry are recorded.
C2_EmptySearchSkipsStages ==
    SearchFoundNothing =>
        /\ trace = <<"search">>
        /\ state.variant_score = 0 /\ state.functional_score = 0
        /\ state.segregation_score = 0 /\ state.cohort_score = 0
        /\ state.total_score = 0
        /\ state.classification_suggestion = ""
        /\ Len(state.messages) = 1
        /\ Len(state.errors) = 1

\* C3: a run whose search returns no identifier ends with total_score 0.0, the label
\* "no evidence", no evidence items and a non-empty error list.
C3_EmptySearchFinalState ==
    (pc = "returned" /\ state.pmids = <<>>) =>
        /\ state.total_score = 0
        /\ state.classification_suggestion = "no evidence"
        /\ state.evidence_items = <<>>
        /\ state.errors # <<>>

\* The category whose oracle call fails in a document of kind "fails x".
FailingCategory(name) ==
    CASE name = "fails variant" -> "variant"
      [] name = "fails functional" -> "functional"
      [] name = "fails cohort" -> "cohort"
      [] name = "fails segregation" -> "segregation"
      [] OTHER -> "none"

\* The records of the categories other than x that the oracle asserts for pmid p, in
\* the order of the agents.
OthersAsserted(p, x) ==
    LET others == SelectSeq(AgentOrder, LAMBDA c : c # x)
    IN  [k \in 1..Len(others) |->
            AbstractEvidence(p, others[k], Lower(Asserted[others[k]].evidence_level),
                             IF others[k] = "functional" THEN SCALE
                             ELSE Asserted[others[k]].confidence)]

\* C4: for every document and every category x whose extractor fails while the oracle
\* asserts the other three, the failure blocks no sibling (an analyze call that is in
\* flight can always have its answer handled), the run does not abort, and
\* extract_all_evidence returns exactly the other three records.
C4_FanOutIsolation ==
    \A p \in DOMAIN world :
        FailingCategory(world[p]) # "none" =>
            /\ node # "raised"
            /\ \A c \in EvidenceType :
                  task[p][c] = "inflight" => ENABLED AnalyzeResponse(p, c)
            /\ returned[p] = "returned" =>
                  ReturnedItems(p) = OthersAsserted(p, FailingCategory(world[p]))

\* C5: whatever the collaborators answer, the run never raises to its caller and never
\* comes to a stop before it has returned with a label: in every state either the run
\* has returned, or a step of the event loop or of a collaborator is possible.
C5_AlwaysCompletes ==
    /\ node # "raised"
    /\ pc = "returned" => state.classification_suggestion # ""
    /\ pc = "returned" \/ ENABLED NextScheduled

\* The number of the batch that the k-th key of the loop falls in.
BatchOf(k) == (k - 1) \div batch_size

Started(p) == \E c \in EvidenceType : task[p][c] # "idle"

\* C6: the batches are processed one after another with a join after each: whenever a
\* categorical extraction task of a document of a later batch has been started, every
\* task of every document of the earlier batches is settled.
C6_BatchBarrier ==
    LET keys == AbstractKeys(state)
    IN  \A k \in DOMAIN keys :
            Started(keys[k]) =>
                \A j \in 1..(BatchOf(k) * batch_size) : Settled(keys[j])

C6_Witness ==
    LET keys == AbstractKeys(state)
    IN  \E k \in DOMAIN keys :
            /\ BatchOf(k) = 1
            /\ \E c \in EvidenceType : task[keys[k]][c] = "inflight"
            /\ Settled(keys[1])

\* The analyze calls that await the oracle.
InFlight == {call \in (DOMAIN task) \X EvidenceType : task[call[1]][call[2]] = "inflight"}

\* C7: at every moment the number of oracle calls in flight is at most batch_size
\* times the number of categories, 20 with the batch size of 5.
C7_BoundedFanOut == Cardinality(InFlight) <= batch_size * Len(AgentOrder)

C7_Witness == Cardinality(InFlight) = batch_size * Len(AgentOrder)

\* The answer of the oracle for category c of pmid p asserts no usable evidence: the
\* call failed, or has_evidence is false.
FailedOrAbsent(p, c) ==
    LET r == Documents[world[p]].llm[c]
    IN  ~r.ok \/ ~r.has_evidence

\* C8: the list that extract_all_evidence returns for a document has at most four
\* records, at most one per category, each with the document's own pmid, and none for
\* a category that failed or whose answer was absent.
C8_PerDocumentList ==
    \A p \in DOMAIN world :
        returned[p] = "returned" =>
            LET items == ReturnedItems(p)
            IN  /\ Len(items) <= 4
                /\ \A k \in DOMAIN items : items[k].pmid = p
                /\ \A k, l \in DOMAIN items :
                      items[k].evidence_type = items[l].evidence_type => k = l
                /\ \A k \in DOMAIN items :
                      ~FailedOrAbsent(p, items[k].evidence_type)

C8_Witness ==
    \E p \in DOMAIN world :
        /\ p > 1
        /\ returned[p] = "returned"
        /\ Len(ReturnedItems(p)) = 2
        /\ \E c \in EvidenceType : FailedOrAbsent(p, c) /\ task[p][c] = "returned"

\* C9: the label is the first of definitive (total >= 30.0), strong (>= 15.0),
\* moderate (>= 5.0), limited (>= 2.0), disputed (>= 0.0) that the total reaches, the
\* low end of each band included, and "no evidence" below 0.0: 30.0 is definitive and
\* 29.999 is strong.
C9_ClassificationBands ==
    node = "END" =>
        LET t == state.total_score
            label == state.classification_suggestion
        IN  /\ label = "definitive" <=> t >= 30 * SCALE
            /\ label = "strong" <=> (15 * SCALE <= t /\ t < 30 * SCALE)
            /\ label = "moderate" <=> (5 * SCALE <= t /\ t < 15 * SCALE)
            /\ label = "limited" <=> (2 * SCALE <= t /\ t < 5 * SCALE)
            /\ label = "disputed" <=> (0 <= t /\ t < 2 * SCALE)
            /\ label = "no evidence" <=> t < 0
            /\ t = 30 * SCALE => label = "definitive"
            /\ t = 30 * SCALE - SCALE \div 1000 => label = "strong"

C9_Witness ==
    /\ node = "END"
    /\ state.total_score = 30 * SCALE - SCALE \div 1000
    /\ state.classification_suggestion = "strong"

\* C10: whatever the oracle answers, none of the four per-type scores and not the
\* total is ever negative.
C10_ScoresNonNegative ==
    /\ state.variant_score >= 0
    /\ state.functional_score >= 0
    /\ state.segregation_score >= 0
    /\ state.cohort_score >= 0
    /\ state.total_score >= 0

\* C11: the independent-group count held in the state never exceeds 10, in any state
\* of a run, however many distinct sources the documents have.
C11_GroupsAtMostTen == state.independent_groups <= 10

\* The first authors of the documents that contributed at least one evidence record.
ContributingAuthors ==
    {Documents[world[state.evidence_items[k].pmid]].first_author :
        k \in DOMAIN state.evidence_items}

\* C12: the independent-group count that the score stage leaves in the state is the
\* number of distinct first authors among the documents that contributed evidence,
\* capped at 10: two contributing documents by one first author count once.
C12_GroupsAreFirstAuthors ==
    "score" \in Range(merged) =>
        state.independent_groups = Min(10, Cardinality(ContributingAuthors))

Scored == "score" \in Range(merged)

\* The evidence added to the cohort score in the comparison of C13.
Deltas == {-SCALE, -2, 2, SCALE \div 2, 3 * SCALE}

\* C13: the total score is 1.0 x variant + 0.8 x functional + 1.2 x segregation +
\* 1.5 x cohort, to the unit of the fixed point, and a change of the cohort score
\* alone by delta changes the total by exactly 1.5 x delta.
C13_TotalIsWeightedSum ==
    Scored =>
        LET v == state.variant_score
            f == state.functional_score
            g == state.segregation_score
            c == state.cohort_score
            sum == 10 * v + 8 * f + 12 * g + 15 * c
        IN  /\ 10 * state.total_score <= sum
            /\ sum < 10 * state.total_score + 10
            /\ \A d \in Deltas :
                  2 * (total_score_of(v, f, g, c + d) - state.total_score) = 3 * d

C13_Witness ==
    /\ Scored
    /\ state.cohort_score > 0
    /\ state.variant_score > 0
    /\ state.total_score > state.cohort_score + state.variant_score

\* The strength values of the levels.
Strength(level) ==
    CASE level = "strong" -> 3 * SCALE
      [] level = "moderate" -> (3 * SCALE) \div 2
      [] level = "weak" -> SCALE \div 2

\* The score that the scored state holds for a category.
ScoreOf(t) ==
    CASE t = "variant" -> state.variant_score
      [] t = "functional" -> state.functional_score
      [] t = "segregation" -> state.segregation_score
      [] t = "cohort" -> state.cohort_score

C15_MonotoneInConfidence ==
    Scored =>
        \A t \in EvidenceType :
            LET list == OfType(state.evidence_items, t)
            IN  \A k \in DOMAIN list : \A c \in Confidences :
                    c >= list[k].confidence =>
                        calculate_type_score([list EXCEPT ![k].confidence = c]) >= ScoreOf(t)

C15_Witness ==
    /\ Scored
    /\ LET list == OfType(state.evidence_items, "cohort")
       IN  /\ Len(list) = 2
           /\ list[1].confidence = Conf(-50)
           /\ calculate_type_score([list EXCEPT ![1].confidence = SCALE]) > ScoreOf("cohort")

\* The orders in which a list can be given.
Orders(list) ==
    {[k \in DOMAIN list |-> list[order[k]]] : order \in Permutations(DOMAIN list)}

\* C17: for every order of the evidence list calculate_scores gives the same four
\* scores, the same total and the same independent-group count, and
\* classify_relationship after it the same label and the same confidence.
C17_OrderIndependent ==
    /\ node = "classify" =>
          \A list \in Orders(state.evidence_items) :
              LET u == calculate_scores([state EXCEPT !.evidence_items = list])
              IN  /\ u.variant_score = state.variant_score
                  /\ u.functional_score = state.functional_score
                  /\ u.segregation_score = state.segregation_score
                  /\ u.cohort_score = state.cohort_score
                  /\ u.total_score = state.total_score
                  /\ u.independent_groups = state.independent_groups
    /\ node = "END" =>
          \A list \in Orders(state.evidence_items) :
              LET given == [state EXCEPT !.evidence_items = list]
                  u == classify_relationship(Merge(given, calculate_scores(given)))
              IN  /\ u.classification_suggestion = state.classification_suggestion
                  /\ u.confidence_level = state.confidence_level

C17_Witness ==
    /\ node = "END"
    /\ Len(state.evidence_items) = 2
    /\ state.evidence_items[1].evidence_type = state.evidence_items[2].evidence_type
    /\ state.evidence_items[1].confidence # state.evidence_items[2].confidence
    /\ state.evidence_items[1].evidence_level # state.evidence_items[2].evidence_level

\* The evidence of a run is one Strong Cohort record of confidence 0.9 and one
\* Moderate Variant record of confidence 0.6, both of one document.
OneCohortOneVariant ==
    /\ Len(state.evidence_items) = 2
    /\ \E k, l \in DOMAIN state.evidence_items :
          LET a == state.evidence_items[k]
              b == state.evidence_items[l]
          IN  /\ a.pmid = b.pmid
              /\ a.evidence_type = "cohort" /\ a.evidence_level = "strong"
              /\ a.confidence = Conf(90)
              /\ b.evidence_type = "variant" /\ b.evidence_level = "moderate"
              /\ b.confidence = Conf(60)

\* C16: a run whose single document yields one Strong Cohort record (confidence 0.9)
\* and one Moderate Variant record (confidence 0.6) ends with the total score 4.95 and
\* the label "limited".
C16_LimitedScenario ==
    (node = "END" /\ OneCohortOneVariant) =>
        /\ state.total_score = (495 * SCALE) \div 100
        /\ state.classification_suggestion = "limited"

C16_Witness ==
    /\ pc = "returned"
    /\ Len(world) = 1
    /\ OneCohortOneVariant
    /\ state.classification_suggestion = "limited"

\* C18: evidence and messages are append-only: in every step of a run the
\* evidence_items list and the messages list held before the step are prefixes of the
\* lists held after it.
C18_AppendOnly ==
    [][/\ IsPrefix(state.evidence_items, state'.evidence_items)
       /\ IsPrefix(state.messages, state'.messages)]_vars

C18_Witness ==
    /\ node = "END"
    /\ state.evidence_items # <<>>
    /\ Len(state.messages) > Len(Stages)

\* The fields of the state other than the processing duration.
Outcome(s) == [f \in (DOMAIN s) \ {"processing_time"} |-> s[f]]

\* C19: the completed state is terminal: once current_stage is "complete", no step
\* changes a field of the state other than the processing duration.
C19_CompleteIsTerminal ==
    [][state.current_stage = "complete" => Outcome(state') = Outcome(state)]_vars

\* C20: when the search returns an identifier and the fetch no document, the run
\* goes to complete without the later stages, with every score 0.0 and with an
\* explanatory entry in the error list.
C20_EmptyFetchShortCircuits ==
    ("fetch" \in Range(merged) /\ state.pmids # <<>> /\ state.abstracts = <<>>) =>
        /\ state.errors # <<>>
        /\ state.current_stage = "complete"
        /\ Range(trace) \cap {"extract", "score", "classify"} = {}
        /\ state.variant_score = 0 /\ state.functional_score = 0
        /\ state.segregation_score = 0 /\ state.cohort_score = 0
        /\ state.total_score = 0

\* The strength strings that name a level, in any case of the letters.
NamesLevel(level) ==
    level \in {"STRONG", "Strong", "strong", "MODERATE", "Moderate", "moderate",
               "WEAK", "Weak", "weak"}

\* The oracle has answered for category c of pmid p and asserts evidence of a level.
AssertsEvidence(p, c) ==
    LET r == Documents[world[p]].llm[c]
    IN  r.ok /\ r.has_evidence /\ NamesLevel(r.evidence_level)

\* C21: every record in evidence_items comes from an answer of the oracle for its
\* document and category whose has_evidence flag was true, and its strength is strong,
\* moderate or weak; an answer with has_evidence false, or with a strength string that
\* names none of the three, yields no record.
C21_RecordsAreAsserted ==
    /\ \A k \in DOMAIN state.evidence_items :
          LET e == state.evidence_items[k]
          IN  /\ e.pmid \in DOMAIN world
              /\ AssertsEvidence(e.pmid, e.evidence_type)
              /\ e.evidence_level \in {"strong", "moderate", "weak"}
    /\ \A k \in DOMAIN all_evidence :
          AssertsEvidence(all_evidence[k].pmid, all_evidence[k].evidence_type)

C21_Witness ==
    /\ node = "END"
    /\ \E p \in DOMAIN world :
          /\ world[p] = "off schema"
          /\ \E k \in DOMAIN state.evidence_items : state.evidence_items[k].pmid = p
          /\ \A k \in DOMAIN state.evidence_items :
                state.evidence_items[k].pmid = p =>
                    state.evidence_items[k].evidence_type \in {"variant", "cohort"}

\* The kind of document that differs from `name` in this only: the answer that fails
\* in `name` reports no evidence.
NoEvidenceTwin(name) ==
    CASE name = "fails variant" -> "absent variant"
      [] name = "fails functional" -> "absent functional"
      [] name = "fails cohort" -> "absent cohort"
      [] name = "fails segregation" -> "absent segregation"
      [] OTHER -> name

\* The records the four agents build from the answers of a kind of document for pmid p,
\* in the order of the agents.
ItemsFromAnswers(name, p) ==
    EvidenceItemsOf([c \in EvidenceType |->
        LET r == Documents[name].llm[c]
        IN  IF r.ok /\ r.has_evidence /\ NamesLevel(r.evidence_level)
            THEN TryBody(c, p, r)
            ELSE None])

\* The final state of the run that is given the search and fetch results of this run
\* and, for each document, the answers of its twin.
TwinRun ==
    LET keys == AbstractKeys(state)
        items == SelectAll([k \in 1..Len(keys) |->
                               ItemsFromAnswers(NoEvidenceTwin(world[keys[k]]), keys[k])],
                           <<>>)
        s0 == create_initial_state
        s1 == Merge(s0, search_literature(s0, state.pmids))
        s2 == Merge(s1, fetch_abstracts(s1, state.abstracts))
        s3 == Merge(s2, extract_evidence(items))
        s4 == Merge(s3, calculate_scores(s3))
    IN  Merge(s4, classify_relationship(s4))

\* What the two runs are compared in.
Compared ==
    {"evidence_items", "variant_score", "functional_score", "segregation_score",
     "cohort_score", "total_score", "independent_groups", "classification_suggestion",
     "confidence_level", "errors"}

\* C22: a run in which one analyze call fails ends with the evidence list, scores,
\* independent-group count, classification, confidence and error list of the run that
\* is given the same responses except that this call reports no evidence: both runs
\* end as TwinRun, which is the same for a document and its twin.
C22_DegradeSilently ==
    (pc = "returned" /\ node = "END") =>
        \A f \in Compared : state[f] = TwinRun[f]

C22_Witness ==
    /\ pc = "returned" /\ node = "END"
    /\ world = <<"two records", "fails functional">>
    /\ task[2].functional = "handled"
    /\ Len(state.evidence_items) = 5

\* The record, as a list of one or none, that the answer for category c of pmid p
\* stands for.
RecordOf(p, c) ==
    IF AssertsEvidence(p, c) THEN TryBody(c, p, Documents[world[p]].llm[c]).value
    ELSE <<>>

\* The records of pmid p in the order variant, functional, cohort, segregation.
DocumentList(p) ==
    RecordOf(p, "variant") \o RecordOf(p, "functional")
        \o RecordOf(p, "cohort") \o RecordOf(p, "segregation")

RECURSIVE ListUpTo(_)
\* The lists of the first n documents of the input collection, one after the other.
ListUpTo(n) ==
    IF n = 0 THEN <<>> ELSE ListUpTo(n - 1) \o DocumentList(AbstractKeys(state)[n])

\* C23: for fixed collaborator responses the evidence list of the extract stage is the
\* same under every interleaving and completion order of the tasks: each document's
\* list holds its records in the order variant, functional, cohort, segregation (the
\* lists are compared when the batch's join takes them, and the list of the batch's
\* first document as soon as it is returned), the list kept by the loop after the
\* batches up to offset i is the one of the first i documents in the order of the
\* input collection, and the list the stage returns is the one of all documents in
\* that order, each document once.
C23_ExtractIsDeterministic ==
    /\ (node = "extract" /\ pc = "gather" /\ batch # <<>>) =>
          \A p \in (IF BatchSettled(batch) THEN Range(batch) ELSE {batch[1]}) :
              returned[p] = "returned" => ReturnedItems(p) = DocumentList(p)
    /\ (node = "extract" /\ pc # "ready") =>
          all_evidence = ListUpTo(Min(i, Len(state.abstracts)))
    /\ Len(merged) >= 3 =>
          /\ Len(state.evidence_items) = Len(all_evidence)
          /\ state.evidence_items = ListUpTo(Len(state.abstracts))

C23_Witness ==
    /\ node = "END"
    /\ world = <<"fails variant", "two records">>
    /\ task[1].variant = "BdbQuit"
    /\ [k \in DOMAIN state.evidence_items |->
           <<state.evidence_items[k].pmid, state.evidence_items[k].evidence_type>>]
         = << <<1, "functional">>, <<1, "cohort">>, <<1, "segregation">>,
              <<2, "variant">>, <<2, "cohort">> >>

\* One step of the extract stage, as C24 allows it.
FrameOfExtract ==
    /\ (node = "extract" /\ state' # state) =>
          /\ node' = "score"
          /\ \A p \in Range(AbstractKeys(state)) : Settled(p) /\ returned[p] # "pending"
          /\ state' = Merge(state, extract_evidence(all_evidence'))
    /\ all_evidence' # all_evidence =>
          /\ node = "extract" /\ pc = "gather"
          /\ \A p \in Range(batch) : Settled(p) /\ returned[p] # "pending"
    /\ task' # task =>
          /\ \A p \in DOMAIN task :
                task'[p] # task[p] =>
                    \A c \in EvidenceType :
                        task[p][c] \in TaskDone => task'[p][c] = task[p][c]
          /\ (node = "extract" /\ pc # "ready" /\ i' = i) =>
                /\ \E p \in DOMAIN task :
                      /\ task'[p] # task[p]
                      /\ \A q \in DOMAIN task : q # p => task'[q] = task[q]
                      /\ \E c \in EvidenceType :
                            /\ task'[p][c] # task[p][c]
                            /\ \A d \in EvidenceType : d # c => task'[p][d] = task[p][d]
                /\ state' = state
                /\ all_evidence' = all_evidence
                /\ returned' = returned

\* C24: while the extract stage is in progress no extraction task writes to the
\* CurationState or to another task's result: a step of a task changes that task's
\* result only, a settled result is never changed, the results are merged into the
\* loop's list only at the join after all tasks of the batch have settled, and the
\* CurationState changes only when the stage returns its one update after the last
\* batch.
C24_TasksWriteOwnResult == [][FrameOfExtract]_vars

C24_Witness ==
    /\ node = "extract" /\ pc = "gather"
    /\ \E p \in DOMAIN task :
          returned[p] = "returned" /\ ReturnedItems(p) # <<>>
    /\ \E q \in DOMAIN task : \E c \in EvidenceType : task[q][c] = "inflight"
    /\ state.evidence_items = <<>>
    /\ all_evidence = <<>>

\* C25: for a Functional answer with has_evidence true and the rescue-experiment flag
\* true, the record's confidence is min(1.0, 1.2 x the answer's confidence), and the
\* record carries the first experiment types of the answer, in their order, three of
\* them at most.
C25_RescueBoost ==
    LET r == world[1]
    IN  (task[1].functional = "returned" /\ r.has_evidence /\ r.rescue_experiment
            /\ NamesLevel(r.evidence_level)) =>
            /\ Len(all_evidence) = 1
            /\ 10 * all_evidence[1].confidence = Min(10 * SCALE, 12 * r.confidence)
            /\ Len(all_evidence[1].key_terms) <= 3
            /\ Len(all_evidence[1].key_terms) = Min(3, Len(r.experiment_types))
            /\ IsPrefix(all_evidence[1].key_terms, r.experiment_types)

C25_Witness ==
    /\ task[1].functional = "returned"
    /\ world[1].rescue_experiment
    /\ world[1].confidence = Conf(90)
    /\ Len(world[1].experiment_types) = 4
    /\ Len(all_evidence) = 1
    /\ all_evidence[1].confidence = SCALE
    /\ all_evidence[1].key_terms = <<"knockout", "rescue", "patch clamp">>

CategoriesPresent ==
    Cardinality({state.evidence_items[k].evidence_type : k \in DOMAIN state.evidence_items})

YearSpan == SeqMax(state.publication_years) - SeqMin(state.publication_years)

\* C26: classify_relationship computes confidence = 0.5 + 0.25 x min(1, distinct
\* categories present / 4) + 0.25 x min(1, independent_groups / 5) and, when the list
\* of publication years is non-empty, multiplies it by 1 - (max year - min year) / 100;
\* with an empty list no year factor is applied.
C26_ConfidenceFormula ==
    node = "END" =>
        LET base == SCALE \div 2
                      + Min(SCALE \div 4, (CategoriesPresent * SCALE) \div 16)
                      + Min(SCALE \div 4, (state.independent_groups * SCALE) \div 20)
        IN  IF state.publication_years = <<>>
            THEN state.confidence_level = base
            ELSE 100 * state.confidence_level = base * (100 - YearSpan)

C26_Witness ==
    /\ node = "END"
    /\ CategoriesPresent = 2
    /\ state.independent_groups = 7
    /\ state.publication_years # <<>> /\ YearSpan = 10
    /\ 1000 * state.confidence_level = 875 * 9 * (SCALE \div 10)

\* C29: the final confidence_level of a run that reaches the classify stage lies in
\* [0.5, 1.0] when no publication year is known and in [0.0, 1.0] when the span of the
\* years is 100 at most; it is negative only when the span exceeds 100.
C29_ConfidenceRange ==
    node = "END" =>
        /\ state.publication_years = <<>> =>
              (SCALE \div 2 <= state.confidence_level /\ state.confidence_level <= SCALE)
        /\ (state.publication_years # <<>> /\ YearSpan <= 100) =>
              (0 <= state.confidence_level /\ state.confidence_level <= SCALE)
        /\ state.confidence_level < 0 =>
              (state.publication_years # <<>> /\ YearSpan > 100)

C29_Witness ==
    /\ node = "END"
    /\ state.publication_years # <<>>
    /\ YearSpan = 120
    /\ state.confidence_level < 0

\* The stage a progress message reports.
StageOfMessage(m) ==
    CASE m[1] \in {"Found papers", "No literature found"} -> "search"
      [] m[1] = "Fetched abstracts" -> "fetch"
      [] m[1] = "Extracted evidence items" -> "extract"
      [] m[1] = "Total evidence score" -> "score"
      [] m[1] = "Classification" -> "classify"

\* C27: in the final state of a run that executes all five stages the messages list
\* holds exactly one entry per executed stage, in stage order (found, fetched,
\* extracted, total score, classification), and no message appears more than once.
C27_OneMessagePerStage ==
    (node = "END" /\ trace = Stages) =>
        /\ Len(state.messages) = Len(Stages)
        /\ \A k \in DOMAIN state.messages : StageOfMessage(state.messages[k]) = Stages[k]
        /\ \A j, k \in DOMAIN state.messages :
              state.messages[j] = state.messages[k] => j = k

====
